---- MODULE Spec2Model ----
(***************************************************************************)
(* The object-file storage core of sky: the PID-file lock (lock, unlock),  *)
(* the ObjectFile lifecycle (ObjectFile_open, ObjectFile_close), event     *)
(* insertion (ObjectFile_add_event) and the full scan of sky-bench         *)
(* (benchmark) over PathIterator and Cursor.                               *)
(*                                                                         *)
(* The specifications share the variables:                                 *)
(*   Spec        processes calling lock/unlock/open/close on one           *)
(*               ObjectFile directory, and dying;                          *)
(*   SpecInsert  one process that opens an ObjectFile, inserts events,     *)
(*               scans it as the benchmark does and closes it;             *)
(*   SpecAdd     the writer alone: open, then insertions;                  *)
(*   SpecScan    the benchmark alone, over every ObjectFile content the    *)
(*               data model allows within the bounds;                      *)
(*   SpecCursor  a reader stepping a PathIterator and a Cursor;            *)
(*   SpecDict    a process that builds, persists and loads the Action      *)
(*               Dictionary (load_actions, byte by byte);                  *)
(*   SpecReopen  a process that opens, closes and opens again;             *)
(*   SpecCreate  Database_create and ObjectFile_create;                    *)
(*   SpecScanFair  SpecScan with the benchmark's steps weakly fair;        *)
(*   SpecHeader  a process that calls load_header on any header file;      *)
(*   SpecCodegen eql_ast_function_codegen failing at any of its checks.    *)
(***************************************************************************)
EXTENDS Integers, Sequences, FiniteSets, TLC

\* ------------------------------------------------------------------ bounds
NumProcs == 2
MaxOid == 2
MaxTs == 2
MaxPathLen == 2
MaxSeedEvents == 1
MaxStoreEvents == 3
MaxInserts == 2
MaxIterations == 2
MaxBlockSize == 1    \* max_block_size, counted in events
MaxNameLen == 2      \* longest dictionary name, in bytes
MaxEntries == 2      \* most entries of a dictionary
MaxJunk == 2         \* largest value an uninitialized integer is given
MaxDepth == 3        \* most directories in a database path
MaxRanges == 3       \* most ranges in a header file
MaxNodes == 2        \* function AST nodes
MaxArgs == 1         \* most arguments of a function node
MaxScopes == 2       \* deepest scope stack followed

Pids == 1 .. NumProcs
NoPid == 0
Self == CHOOSE p \in Pids : \A q \in Pids : p <= q
Oids == 1 .. MaxOid
Timestamps == 1 .. MaxTs

VARIABLES
    alive,        \* alive[p]: process p is running
    lockFile,     \* the identifier stored in the lock file; NoPid: no lock file
    lockState,    \* lockState[p]: "Unlocked" or "LockedBySelf", as p was last told
    actionsFile,  \* TRUE iff the file <path>/actions exists
    last,         \* the last call completed, with the state it was made in
    blocks,       \* the Blocks of the ObjectFile, in Header Index order
    inserted,     \* the events ObjectFile_add_event returned success for
    seeded,       \* the Blocks the ObjectFile held at the start
    pc,           \* position of the scanning process
    iterations,   \* options->iterations
    iter,         \* the benchmark's loop counter i
    iterator,     \* the PathIterator: [blk, pth, eof]
    cursor,       \* the Cursor: [blk, pth, idx, eof]
    event_count,  \* the benchmark's event_count
    seenPaths,    \* object ids of the Paths bound to the cursor, this iteration
    seenEvents,   \* <<object id, index, timestamp>> counted, this iteration
    object_file,  \* object_file[p]: the ObjectFile structure of process p
    actionsBytes, \* the bytes of the file <path>/actions, <<>> while there is none
    dcall,        \* the last dictionary or compiler call: [op, name, id, before]
    first,        \* the ObjectFile structure as the first ObjectFile_open left it
    database,     \* the Database of the process: [null, path]
    headerFile,   \* the file <path>/header: [exists, ranges]
    eql_module    \* the eql_module of the compiler: [llvm_function, scopes]

lockVars == <<alive, lockFile, lockState, actionsFile, last>>
storeVars == <<blocks, inserted, seeded>>
scanVars == <<pc, iterations, iter, iterator, cursor, event_count, seenPaths, seenEvents>>
dictVars == <<object_file, actionsBytes, dcall, first, database, headerFile,
              eql_module>>
vars == <<lockVars, storeVars, scanVars, dictVars>>

\* ---------------------------------------------------------------- locking

\* What a call leaves in `last`: the call, its caller and return code, the
\* functions it called in order, the return code of the lock() or unlock()
\* among them (inner), and the lock file, its owner's liveness and the
\* caller's state before the call.
CallRecord(op, p, rc, inner, calls) ==
    [op |-> op, pid |-> p, rc |-> rc, inner |-> inner, calls |-> calls,
     preFile |-> lockFile,
     preOwnerAlive |-> (lockFile # NoPid /\ alive[lockFile]),
     preState |-> lockState[p]]

\* lock(): its body is four TODO comments and "return 0": it reads no lock
\* file, writes none, and reports success.
lock(p) == [rc |-> 0, file |-> lockFile]

\* unlock(): two TODO comments and "return 0".
unlock(p) == [rc |-> 0, file |-> lockFile]

\* The state the caller is in after lock() returned rc: success tells it that
\* it holds the write lock.
AfterLock(p, rc) == IF rc = 0 THEN "LockedBySelf" ELSE lockState[p]

\* The state the caller is in after unlock() returned rc.
AfterUnlock(p, rc) == IF rc = 0 THEN "Unlocked" ELSE lockState[p]

\* file_exists(): returns stat()'s return code, 0 for a file that exists and
\* -1 for one that does not.
file_exists(present) == IF present THEN 0 ELSE -1

\* A module with no current function and no scope.
NullFunction == 0
NoModule == [llvm_function |-> NullFunction, scopes |-> <<>>]

\* The directory holds no header file.
NoHeader == [exists |-> FALSE, ranges |-> <<>>]

\* load_header(): five TODO comments and "return 0": the header file is not
\* looked for, opened or read, nothing is sorted, and the ObjectFile
\* structure is left as it was.
load_header(obj, header) == [rc |-> 0, obj |-> obj]

\* load_properties(): "return 0".
load_properties == 0

\* ------------------------------------------------------- dictionary files

\* The bytes a name is made of, and the names of the bounded model.
Letters == {97}
Names == UNION {[1 .. n -> Letters] : n \in 1 .. MaxNameLen}
Junk == 0 .. MaxJunk

\* fopen() found no file.
NoFile == <<-1>>

\* What bfromcstr() makes of a pointer that does not point to a string.
GarbageName == <<-2>>

\* The w bytes of the unsigned integer v, least significant first, and back.
RECURSIVE Bytes(_, _)
Bytes(v, w) == IF w = 0 THEN <<>> ELSE <<v % 256>> \o Bytes(v \div 256, w - 1)

RECURSIVE Value(_)
Value(bs) == IF bs = <<>> THEN 0 ELSE Head(bs) + 256 * Value(Tail(bs))

\* A dictionary in memory is a sequence of entries [id, name]. Its file: the
\* count in 4 bytes, then for each entry the id in 4 bytes, the length of the
\* name in 2 bytes and the bytes of the name.
RECURSIVE Records(_)
Records(items) ==
    IF items = <<>> THEN <<>>
    ELSE Bytes(Head(items).id, 4) \o Bytes(Len(Head(items).name), 2)
         \o Head(items).name \o Records(Tail(items))

Serialize(items) == Bytes(Len(items), 4) \o Records(items)

\* find_or_create(name): the id of the entry named `name`, or a new entry
\* with the largest id plus one, 0 in an empty dictionary.
find_or_create(items, name) ==
    IF \E k \in 1 .. Len(items) : items[k].name = name
    THEN [id |-> items[CHOOSE k \in 1 .. Len(items) : items[k].name = name].id,
          items |-> items]
    ELSE LET id == IF items = <<>> THEN 0
                   ELSE 1 + CHOOSE m \in {items[k].id : k \in 1 .. Len(items)} :
                                \A k \in 1 .. Len(items) : items[k].id <= m
         IN  [id |-> id, items |-> Append(items, [id |-> id, name |-> name])]

\* The dictionaries find_or_create builds from nothing, and the files a
\* loader may find: their files, whole or cut short anywhere.
RECURSIVE Build(_)
Build(names) ==
    IF names = <<>> THEN <<>>
    ELSE find_or_create(Build(SubSeq(names, 1, Len(names) - 1)),
                        names[Len(names)]).items

Dictionaries ==
    {Build(ns) : ns \in UNION {[1 .. n -> Names] : n \in 0 .. MaxEntries}}

Files ==
    UNION {{SubSeq(Serialize(d), 1, n) : n \in 0 .. Len(Serialize(d))}
           : d \in Dictionaries}

\* fread(ptr, n, 1, file) at offset pos: the bytes it stores (all n, or those
\* left before the end of the file), the new offset, the item count it
\* returns and whether it has set the end-of-file indicator.
fread(file, pos, n) ==
    LET end == IF pos + n <= Len(file) THEN pos + n ELSE Len(file)
    IN  [got |-> SubSeq(file, pos + 1, end), pos |-> end,
         items |-> IF pos + n <= Len(file) THEN 1 ELSE 0,
         eof |-> pos + n > Len(file)]

\* The value of a w-byte integer that held `old` after fread() stored `got`
\* over its first bytes.
Overlay(old, got, w) == Value(got \o SubSeq(Bytes(old, w), Len(got) + 1, w))

\* The for loop of load_actions(), from iteration st.i on. Each iteration
\* reads 4 bytes into actions[i].id and 2 into length, return codes ignored,
\* then reads sizeof(length) = 2 bytes to &buffer, over the pointer itself,
\* and compares the item count fread() returns (0 or 1) with length. A
\* mismatch is "Corrupt actions file": error. After it free(buffer), and on a
\* match bfromcstr(buffer), use the overwritten pointer if any byte was read:
\* undefined behaviour, here a crash (ub) or a free() without effect and a
\* name of garbage. With nothing read the name is the empty string calloc()
\* left. `junk` is the value of the uninitialized `length` and ids.
RECURSIVE ReadActions(_, _, _, _, _)
ReadActions(file, count, st, junk, ub) ==
    IF ~(st.i < count /\ ~st.eof)
    THEN [rc |-> 0, crash |-> FALSE, items |-> st.items]
    ELSE LET r1 == fread(file, st.pos, 4)
             r2 == fread(file, r1.pos, 2)
             r3 == fread(file, r2.pos, 2)
             id == Overlay(junk, r1.got, 4)
             length == Overlay(st.length, r2.got, 2)
             wild == r3.got # <<>>
         IN  IF r3.items # length
             THEN [rc |-> -1, crash |-> wild /\ ub, items |-> st.items]
             ELSE IF wild /\ ub
             THEN [rc |-> -1, crash |-> TRUE, items |-> st.items]
             ELSE ReadActions(file, count,
                              [pos |-> r3.pos,
                               eof |-> st.eof \/ r1.eof \/ r2.eof \/ r3.eof,
                               i |-> st.i + 1,
                               length |-> length,
                               items |-> Append(st.items,
                                   [id |-> id,
                                    name |-> IF wild THEN GarbageName ELSE <<>>])],
                              junk, ub)

\* load_actions(): "if(file_exists(path))" is taken when stat() FAILED, that
\* is when the actions file is missing (present: what stat() found). Then
\* fopen() is called (fo: the bytes of the file it opens, NoFile if there is
\* still none). For NoFile check() jumps to error, which tests the
\* uninitialized `buffer` before free(): undefined behaviour, here either a
\* return of -1 or a crash (ub). For a file that has appeared since stat(),
\* count is read (it stays 0 where the file ends) and the loop runs. When the
\* file exists at stat() the read is skipped: the uninitialized pointer
\* `actions` and the count 0 are stored, and 0 is returned.
load_actions(obj, present, fo, junk, ub) ==
    IF file_exists(present) # 0
    THEN IF fo = NoFile
         THEN [rc |-> -1, crash |-> ub, calls |-> <<"file_exists", "fopen">>,
               obj |-> obj]
         ELSE LET r0 == fread(fo, 0, 4)
                  count == Overlay(0, r0.got, 4)
                  r == ReadActions(fo, count,
                                   [pos |-> r0.pos, eof |-> r0.eof, i |-> 0,
                                    length |-> junk, items |-> <<>>], junk, ub)
              IN  [rc |-> r.rc, crash |-> r.crash,
                   calls |-> <<"file_exists", "fopen", "fread">>,
                   obj |-> IF r.rc # 0 THEN obj
                           ELSE [obj EXCEPT
                                   !.actions = [ptr |-> "heap", items |-> r.items],
                                   !.action_count = count]]
    ELSE [rc |-> 0, crash |-> FALSE, calls |-> <<"file_exists">>,
          obj |-> [obj EXCEPT
                     !.actions = [ptr |-> "indeterminate", items |-> <<>>],
                     !.action_count = 0]]

\* The bytes fopen() finds when nothing touches the directory during a call.
AtFopen == IF actionsFile THEN actionsBytes ELSE NoFile

\* ObjectFile_open(): lock, then load_header, load_actions, load_properties,
\* each behind check(): the first failure returns -1 at once (nothing is
\* undone). The result: return code, the calls made in order, the lock file,
\* whether the process crashed and the ObjectFile structure.
ObjectFile_open(p, fo, junk, ub) ==
    LET l == lock(p)
        h == load_header(object_file[p], headerFile)
        a == load_actions(h.obj, actionsFile, fo, junk, ub)
    IN  IF l.rc # 0
        THEN [rc |-> -1, calls |-> <<"lock">>, file |-> l.file,
              lockrc |-> l.rc, crash |-> FALSE, obj |-> object_file[p]]
        ELSE IF h.rc # 0
        THEN [rc |-> -1, calls |-> <<"lock", "load_header">>, file |-> l.file,
              lockrc |-> l.rc, crash |-> FALSE, obj |-> h.obj]
        ELSE IF a.rc # 0
        THEN [rc |-> -1, calls |-> <<"lock", "load_header", "load_actions">>,
              file |-> l.file, lockrc |-> l.rc, crash |-> a.crash, obj |-> a.obj]
        ELSE IF load_properties # 0
        THEN [rc |-> -1,
              calls |-> <<"lock", "load_header", "load_actions", "load_properties">>,
              file |-> l.file, lockrc |-> l.rc, crash |-> FALSE, obj |-> a.obj]
        ELSE [rc |-> 0,
              calls |-> <<"lock", "load_header", "load_actions", "load_properties">>,
              file |-> l.file, lockrc |-> l.rc, crash |-> FALSE, obj |-> a.obj]

\* ObjectFile_close(): check(unlock(object_file) == 0), then return 0.
ObjectFile_close(p) ==
    LET u == unlock(p)
    IN  [rc |-> IF u.rc = 0 THEN 0 ELSE -1, file |-> u.file, unlockrc |-> u.rc]

\* The effect of one call of ObjectFile_open by p on the lock variables.
OpenEffect(p, ub) ==
    LET r == ObjectFile_open(p, AtFopen, 0, ub)
    IN  /\ lockFile' = r.file
        /\ object_file' = [object_file EXCEPT ![p] = r.obj]
        /\ lockState' = [lockState EXCEPT ![p] = AfterLock(p, r.lockrc)]
        /\ alive' = [alive EXCEPT ![p] = ~r.crash]
        /\ last' = CallRecord("open", p, r.rc, r.lockrc, r.calls)
        /\ UNCHANGED <<actionsFile, actionsBytes, dcall, first, database, headerFile, eql_module>>

\* The effect of one call of ObjectFile_close by p on the lock variables.
CloseEffect(p) ==
    LET r == ObjectFile_close(p)
    IN  /\ lockFile' = r.file
        /\ lockState' = [lockState EXCEPT ![p] = AfterUnlock(p, r.unlockrc)]
        /\ last' = CallRecord("close", p, r.rc, r.unlockrc, <<"unlock">>)
        /\ UNCHANGED <<alive, actionsFile, dictVars>>

\* A process calls lock() on the ObjectFile.
Lock(p) ==
    /\ alive[p]
    /\ lockFile' = lock(p).file
    /\ lockState' = [lockState EXCEPT ![p] = AfterLock(p, lock(p).rc)]
    /\ last' = CallRecord("lock", p, lock(p).rc, lock(p).rc, <<"lock">>)
    /\ UNCHANGED <<dictVars, alive, actionsFile, storeVars, scanVars>>

\* A process calls unlock() on the ObjectFile.
Unlock(p) ==
    /\ alive[p]
    /\ lockFile' = unlock(p).file
    /\ lockState' = [lockState EXCEPT ![p] = AfterUnlock(p, unlock(p).rc)]
    /\ last' = CallRecord("unlock", p, unlock(p).rc, unlock(p).rc, <<"unlock">>)
    /\ UNCHANGED <<dictVars, alive, actionsFile, storeVars, scanVars>>

\* A process calls ObjectFile_open().
Open(p) ==
    /\ alive[p]
    /\ \E ub \in BOOLEAN : OpenEffect(p, ub)
    /\ UNCHANGED <<storeVars, scanVars>>

\* A process calls ObjectFile_close().
Close(p) ==
    /\ alive[p]
    /\ CloseEffect(p)
    /\ UNCHANGED <<storeVars, scanVars>>

\* A process dies; whatever lock file there is stays behind.
Die(p) ==
    /\ alive[p]
    /\ alive' = [alive EXCEPT ![p] = FALSE]
    /\ last' = CallRecord("die", p, 0, 0, <<>>)
    /\ UNCHANGED <<dictVars, lockFile, lockState, actionsFile, storeVars, scanVars>>

\* A bstring made of a C string, and the NULL bstring.
bfromcstr(str) == [null |-> FALSE, data |-> str]
NullString == [null |-> TRUE, data |-> ""]

\* Database_create(path): a Database that keeps the path it is given.
Database_create(path) == [null |-> path.null, path |-> path.data]
NullDatabase == [null |-> TRUE, path |-> ""]

\* The memory of an ObjectFile structure that holds nothing.
NoObject ==
    [name |-> "", path |-> "", infos |-> "NULL", block_count |-> 0,
     actions |-> [ptr |-> "NULL", items |-> <<>>], action_count |-> 0,
     properties |-> [ptr |-> "NULL", items |-> <<>>], property_count |-> 0]

\* ObjectFile_create as it must not be: the path lacks the separator, and the
\* block count is left as malloc() returned it.
ObjectFile_create_raw(db, name, ub) ==
    IF db.null \/ name.null
    THEN [null |-> TRUE, crash |-> ub, obj |-> NoObject]
    ELSE [null |-> FALSE, crash |-> FALSE,
          obj |-> [name |-> name.data,
                   path |-> db.path \o name.data,
                   infos |-> "NULL", block_count |-> 1,
                   actions |-> [ptr |-> "NULL", items |-> <<>>], action_count |-> 0,
                   properties |-> [ptr |-> "NULL", items |-> <<>>],
                   property_count |-> 0]]

\* ObjectFile_create(): for a NULL database or name, check() jumps to error
\* and ObjectFile_destroy() is given the uninitialized pointer `object_file`:
\* undefined behaviour, here a crash (ub) or a return of NULL. Otherwise the
\* structure holds a copy of the name, the path "<database path>/<name>",
\* and NULL and 0 for the block infos, the actions and the properties.
ObjectFile_create(db, name, ub) ==
    IF db.null \/ name.null
    THEN [null |-> TRUE, crash |-> ub, obj |-> NoObject]
    ELSE [null |-> FALSE, crash |-> FALSE,
          obj |-> [name |-> name.data,
                   path |-> db.path \o "/" \o name.data,
                   infos |-> "NULL", block_count |-> 0,
                   actions |-> [ptr |-> "NULL", items |-> <<>>], action_count |-> 0,
                   properties |-> [ptr |-> "NULL", items |-> <<>>],
                   property_count |-> 0]]

\* No dictionary call yet.
NoCall == [op |-> "none", name |-> <<>>, id |-> 0, before |-> <<>>]

\* Every process has created its ObjectFile structure for the same directory;
\* an actions file that is there holds an empty dictionary.
DictIdle ==
    /\ object_file = [p \in Pids |->
                        ObjectFile_create(Database_create(bfromcstr("/etc/sky/data")),
                                          bfromcstr("users"), FALSE).obj]
    /\ actionsBytes = IF actionsFile THEN Serialize(<<>>) ELSE <<>>
    /\ dcall = NoCall
    /\ first = NoObject
    /\ database = Database_create(bfromcstr("/etc/sky/data"))
    /\ headerFile = NoHeader
    /\ eql_module = NoModule

\* The scan variables of a process that has not started.
ScanIdle ==
    /\ pc = "created"
    /\ iterations = 1
    /\ iter = 0
    /\ iterator = [blk |-> 1, pth |-> 0, eof |-> FALSE]
    /\ cursor = [blk |-> 0, pth |-> 0, idx |-> 0, eof |-> TRUE]
    /\ event_count = 0
    /\ seenPaths = <<>>
    /\ seenEvents = <<>>

\* The directory as the processes find it: any lock file, left by anyone; the
\* actions file there or not. No process holds anything yet.
Init ==
    /\ alive = [p \in Pids |-> TRUE]
    /\ lockFile \in {NoPid} \cup Pids
    /\ lockState = [p \in Pids |-> "Unlocked"]
    /\ actionsFile \in BOOLEAN
    /\ last = [op |-> "none", pid |-> NoPid, rc |-> 0, inner |-> 0, calls |-> <<>>,
               preFile |-> NoPid, preOwnerAlive |-> FALSE, preState |-> "Unlocked"]
    /\ blocks = <<>>
    /\ inserted = <<>>
    /\ seeded = <<>>
    /\ ScanIdle
    /\ DictIdle

Next ==
    \E p \in Pids : Lock(p) \/ Unlock(p) \/ Open(p) \/ Close(p) \/ Die(p)

Spec == Init /\ [][Next]_vars

\* ------------------------------------------------------------- data model

\* The elements of a finite set of integers, ascending.
RECURSIVE Ascending(_)
Ascending(S) ==
    IF S = {} THEN <<>>
    ELSE LET m == CHOOSE x \in S : \A y \in S : x <= y
         IN  <<m>> \o Ascending(S \ {m})

RECURSIVE SumOver(_, _)
SumOver(f, S) ==
    IF S = {} THEN 0
    ELSE LET x == CHOOSE y \in S : TRUE IN f[x] + SumOver(f, S \ {x})

\* The timestamps of the events a Path may hold, ascending; <<>> stands for
\* an object id that has no Path. An event is [ts, seq]: seq is 0 for an
\* event the ObjectFile held at the start and the insertion's number for an
\* inserted one.
PathContents ==
    UNION {{s \in [1 .. n -> Timestamps] : \A i \in 1 .. n - 1 : s[i] <= s[i + 1]}
           : n \in 0 .. MaxPathLen}

\* The Blocks of the ObjectFile in which object id o has the events ev[o], the
\* ids of `covered` lie in some Block's range and a range ends after each id
\* of `cuts`: ranges [start, end) ascending and disjoint, Paths ascending by
\* object id inside each Block.
BlockEnd(s, covered, cuts) ==
    CHOOSE e \in s + 1 .. MaxOid + 1 :
        /\ e = MaxOid + 1 \/ e \notin covered \/ (e - 1) \in cuts
        /\ \A f \in s + 1 .. e - 1 : f \in covered /\ (f - 1) \notin cuts

BlockAt(s, ev, covered, cuts) ==
    LET e == BlockEnd(s, covered, cuts)
        ids == Ascending({o \in s .. e - 1 : ev[o] # <<>>})
    IN  [start |-> s, end |-> e,
         paths |-> [k \in 1 .. Len(ids) |->
                     [oid |-> ids[k],
                      events |-> [i \in 1 .. Len(ev[ids[k]]) |->
                                    [ts |-> ev[ids[k]][i], seq |-> 0]]]]]

BlocksOf(ev, covered, cuts) ==
    LET starts == Ascending({o \in covered :
                                o = 1 \/ (o - 1) \notin covered \/ (o - 1) \in cuts})
    IN  [b \in 1 .. Len(starts) |-> BlockAt(starts[b], ev, covered, cuts)]

\* A choice of events, covered ids and cuts that describes a content.
WellFormed(ev, covered, cuts) ==
    /\ {o \in Oids : ev[o] # <<>>} \subseteq covered
    /\ cuts \subseteq {o \in covered : (o + 1) \in covered}

\* Every content of at most n events the data model allows within the bounds.
StoresOf(n) ==
    {BlocksOf(c[1], c[2], c[3]) :
        c \in {d \in {f \in [Oids -> PathContents] :
                        SumOver([o \in Oids |-> Len(f[o])], Oids) <= n}
                     \X (SUBSET Oids) \X (SUBSET (1 .. MaxOid - 1)) :
                 WellFormed(d[1], d[2], d[3])}}

\* ------------------------------------------------- lock manager (acquire)
\* ObjectFile_lock and ObjectFile_unlock are called by the benchmark; their
\* bodies follow the Lock Manager contract (acquire, release).

\* ObjectFile_lock: acquire(). No lock file: create it with the caller's
\* identifier. A lock file naming a dead process is stale: remove it and
\* acquire. A lock file naming a live process: LockConflict.
ObjectFile_lock(p) ==
    IF lockFile = NoPid \/ ~alive[lockFile]
    THEN [rc |-> 0, file |-> p, state |-> "LockedBySelf"]
    ELSE [rc |-> -1, file |-> lockFile, state |-> lockState[p]]

\* ObjectFile_unlock: release(). Valid only from LockedBySelf with a lock
\* file that still names the caller: delete it. Anything else: LockViolation.
ObjectFile_unlock(p) ==
    IF lockState[p] = "LockedBySelf" /\ lockFile = p
    THEN [rc |-> 0, file |-> NoPid, state |-> "Unlocked"]
    ELSE [rc |-> -1, file |-> lockFile, state |-> lockState[p]]

\* ------------------------------------------------- PathIterator and Cursor
\* Called by the benchmark; their bodies follow the PathIterator and Cursor
\* contracts.

\* Cursor_create(): a cursor bound to no Path.
Cursor_create == [blk |-> 0, pth |-> 0, idx |-> 0, eof |-> TRUE]

\* PathIterator_create(): before the first Path of the first Block.
PathIterator_create == [blk |-> 1, pth |-> 0, eof |-> FALSE]

\* The events of the Path a cursor is bound to.
CursorEvents(c) == blocks[c.blk].paths[c.pth].events

\* PathIterator_next(): the next Path of the current Block, else the first
\* Path of the next Block that has one; the cursor is rebound to it, at its
\* first event. With no Path left the iterator's eof is set and the cursor
\* is left alone. Returns 0.
PathIterator_next(it, c) ==
    IF it.eof THEN [rc |-> 0, it |-> it, c |-> c]
    ELSE IF it.blk <= Len(blocks) /\ it.pth < Len(blocks[it.blk].paths)
    THEN [rc |-> 0,
          it |-> [it EXCEPT !.pth = it.pth + 1],
          c |-> [blk |-> it.blk, pth |-> it.pth + 1, idx |-> 1,
                 eof |-> Len(blocks[it.blk].paths[it.pth + 1].events) = 0]]
    ELSE LET later == {b \in it.blk + 1 .. Len(blocks) : Len(blocks[b].paths) > 0}
         IN  IF later = {}
             THEN [rc |-> 0, it |-> [it EXCEPT !.eof = TRUE], c |-> c]
             ELSE LET b == CHOOSE x \in later : \A y \in later : x <= y
                  IN  [rc |-> 0,
                       it |-> [blk |-> b, pth |-> 1, eof |-> FALSE],
                       c |-> [blk |-> b, pth |-> 1, idx |-> 1,
                              eof |-> Len(blocks[b].paths[1].events) = 0]]

\* Off by one: eof is set when the index reaches the last event.
Cursor_next_event_early(c) ==
    IF c.eof THEN [rc |-> -1, c |-> c]
    ELSE [rc |-> 0,
          c |-> [c EXCEPT !.idx = c.idx + 1,
                          !.eof = c.idx + 1 >= Len(blocks[c.blk].paths[c.pth].events)]]

\* Cursor_next_event(): fails once eof is set; else advances the index by one
\* and sets eof when the index has passed the last event.
Cursor_next_event(c) ==
    IF c.eof THEN [rc |-> -1, c |-> c]
    ELSE [rc |-> 0,
          c |-> [c EXCEPT !.idx = c.idx + 1,
                          !.eof = c.idx + 1 > Len(CursorEvents(c))]]

\* --------------------------------------------------------- event insertion

\* ObjectFile_add_event as it must not be: the insertion counts a new action.
ObjectFile_add_event_action(obj, bs, oid, ts) ==
    [rc |-> 0, blocks |-> bs,
     obj |-> [obj EXCEPT !.action_count = obj.action_count + 1]]

\* ObjectFile_add_event(): seven TODO comments and "return 0": no Block is
\* looked up, created, changed or written, and the ObjectFile structure,
\* dictionaries included, is not touched.
ObjectFile_add_event(obj, bs, oid, ts) == [rc |-> 0, blocks |-> bs, obj |-> obj]

\* A writer inserts an event into the ObjectFile it has opened.
AddEvent ==
    /\ pc = "open"
    /\ Len(inserted) < MaxInserts
    /\ \E oid \in Oids, ts \in Timestamps :
         LET r == ObjectFile_add_event(object_file[Self], blocks, oid, ts)
         IN  /\ blocks' = r.blocks
             /\ object_file' = [object_file EXCEPT ![Self] = r.obj]
             /\ inserted' = IF r.rc = 0
                            THEN Append(inserted, [oid |-> oid, ts |-> ts,
                                                   seq |-> Len(inserted) + 1])
                            ELSE inserted
             /\ last' = CallRecord("add_event", Self, r.rc, 0, <<>>)
    /\ UNCHANGED <<actionsBytes, dcall, first, database, headerFile, eql_module, alive,
                   lockFile, lockState, actionsFile, seeded,
                   scanVars>>

\* --------------------------------------------------- benchmark (sky-bench)

\* check(ObjectFile_open(object_file) == 0, ...)
BenchOpen ==
    /\ pc = "created"
    /\ \E ub \in BOOLEAN : OpenEffect(Self, ub)
    /\ pc' = IF ~alive'[Self] THEN "crashed"
             ELSE IF last'.rc = 0 THEN "open" ELSE "error"
    /\ UNCHANGED <<storeVars, iterations, iter, iterator, cursor, event_count,
                   seenPaths, seenEvents>>

\* check(ObjectFile_lock(object_file) == 0, ...), then i = 0.
BenchLock ==
    /\ pc = "open"
    /\ LET r == ObjectFile_lock(Self)
       IN  /\ lockFile' = r.file
           /\ lockState' = [lockState EXCEPT ![Self] = r.state]
           /\ last' = CallRecord("ObjectFile_lock", Self, r.rc, 0, <<>>)
           /\ pc' = IF r.rc = 0 THEN "loop" ELSE "error"
    /\ iter' = 0
    /\ UNCHANGED <<dictVars, alive, actionsFile, storeVars, iterations, iterator, cursor,
                   event_count, seenPaths, seenEvents>>

\* The loop head with the Cursor and the PathIterator created once, before
\* the loop: a later iteration starts on the exhausted iterator.
BenchIterBegin_reuse ==
    /\ pc = "loop"
    /\ iter < iterations
    /\ LET r == IF iter = 0 THEN PathIterator_next(PathIterator_create, Cursor_create)
                ELSE [rc |-> 0, it |-> iterator, c |-> cursor]
       IN  /\ iterator' = r.it
           /\ cursor' = r.c
           /\ seenPaths' = IF r.it.eof THEN <<>>
                           ELSE <<blocks[r.c.blk].paths[r.c.pth].oid>>
    /\ seenEvents' = <<>>
    /\ pc' = "scan"
    /\ UNCHANGED <<dictVars, lockVars, storeVars, iterations, iter, event_count>>

\* Loop head with i < iterations: Cursor_create, PathIterator_create and the
\* first PathIterator_next, whose return code is not looked at.
BenchIterBegin ==
    /\ pc = "loop"
    /\ iter < iterations
    /\ LET r == PathIterator_next(PathIterator_create, Cursor_create)
       IN  /\ iterator' = r.it
           /\ cursor' = r.c
           /\ seenPaths' = IF r.it.eof THEN <<>>
                           ELSE <<blocks[r.c.blk].paths[r.c.pth].oid>>
    /\ seenEvents' = <<>>
    /\ pc' = "scan"
    /\ UNCHANGED <<dictVars, lockVars, storeVars, iterations, iter, event_count>>

\* The inner loop written as an "if": after one event is counted the scan
\* moves on to the next Path.
BenchCountEvent_if ==
    /\ pc = "scan"
    /\ ~iterator.eof
    /\ ~cursor.eof
    /\ event_count' = event_count + 1
    /\ seenEvents' = Append(seenEvents,
                            <<blocks[cursor.blk].paths[cursor.pth].oid, cursor.idx,
                              CursorEvents(cursor)[cursor.idx].ts>>)
    /\ LET r == PathIterator_next(iterator, Cursor_next_event(cursor).c)
       IN  /\ iterator' = r.it
           /\ cursor' = r.c
           /\ seenPaths' = IF r.it.eof THEN seenPaths
                           ELSE Append(seenPaths, blocks[r.c.blk].paths[r.c.pth].oid)
           /\ pc' = "scan"
    /\ UNCHANGED <<dictVars, lockVars, storeVars, iterations, iter>>

\* Inner loop body: event_count++, then check(Cursor_next_event(cursor) == 0).
\* event_count is a uint32_t; the counts reached here stay far below 2^32.
BenchCountEvent ==
    /\ pc = "scan"
    /\ ~iterator.eof
    /\ ~cursor.eof
    /\ event_count' = event_count + 1
    /\ seenEvents' = Append(seenEvents,
                            <<blocks[cursor.blk].paths[cursor.pth].oid, cursor.idx,
                              CursorEvents(cursor)[cursor.idx].ts>>)
    /\ LET r == Cursor_next_event(cursor)
       IN  /\ cursor' = r.c
           /\ pc' = IF r.rc = 0 THEN "scan" ELSE "error"
    /\ UNCHANGED <<dictVars, lockVars, storeVars, iterations, iter, iterator, seenPaths>>

\* After the inner loop: check(PathIterator_next(iterator, cursor) == 0).
BenchNextPath ==
    /\ pc = "scan"
    /\ ~iterator.eof
    /\ cursor.eof
    /\ LET r == PathIterator_next(iterator, cursor)
       IN  /\ iterator' = r.it
           /\ cursor' = r.c
           /\ seenPaths' = IF r.it.eof THEN seenPaths
                           ELSE Append(seenPaths, blocks[r.c.blk].paths[r.c.pth].oid)
           /\ pc' = IF r.rc = 0 THEN "scan" ELSE "error"
    /\ UNCHANGED <<dictVars, lockVars, storeVars, iterations, iter, event_count, seenEvents>>

\* The outer while ends at iterator->eof: destroy both, i++.
BenchIterEnd ==
    /\ pc = "scan"
    /\ iterator.eof
    /\ iter' = iter + 1
    /\ pc' = "loop"
    /\ UNCHANGED <<dictVars, lockVars, storeVars, iterations, iterator, cursor, event_count,
                   seenPaths, seenEvents>>

\* Loop exit: check(ObjectFile_unlock(object_file) == 0, ...).
BenchUnlock ==
    /\ pc = "loop"
    /\ iter >= iterations
    /\ LET r == ObjectFile_unlock(Self)
       IN  /\ lockFile' = r.file
           /\ lockState' = [lockState EXCEPT ![Self] = r.state]
           /\ last' = CallRecord("ObjectFile_unlock", Self, r.rc, 0, <<>>)
           /\ pc' = IF r.rc = 0 THEN "unlocked" ELSE "error"
    /\ UNCHANGED <<dictVars, alive, actionsFile, storeVars, iterations, iter, iterator, cursor,
                   event_count, seenPaths, seenEvents>>

\* check(ObjectFile_close(object_file) == 0, ...), then the statistics.
BenchClose ==
    /\ pc = "unlocked"
    /\ CloseEffect(Self)
    /\ pc' = IF last'.rc = 0 THEN "done" ELSE "error"
    /\ UNCHANGED <<storeVars, iterations, iter, iterator, cursor, event_count,
                   seenPaths, seenEvents>>

\* error: Event_destroy, ObjectFile_close (return code dropped), destroy.
BenchError ==
    /\ pc = "error"
    /\ CloseEffect(Self)
    /\ pc' = "failed"
    /\ UNCHANGED <<storeVars, iterations, iter, iterator, cursor, event_count,
                   seenPaths, seenEvents>>

Benchmark ==
    \/ BenchOpen
    \/ BenchLock
    \/ BenchIterBegin
    \/ BenchCountEvent
    \/ BenchNextPath
    \/ BenchIterEnd
    \/ BenchUnlock
    \/ BenchClose
    \/ BenchError

\* The benchmark's process before ObjectFile_open, on an ObjectFile that
\* holds one of `contents`.
BenchInit(contents) ==
    /\ alive = [p \in Pids |-> TRUE]
    /\ lockFile \in {NoPid} \cup Pids
    /\ lockState = [p \in Pids |-> "Unlocked"]
    /\ actionsFile \in BOOLEAN
    /\ last = [op |-> "none", pid |-> NoPid, rc |-> 0, inner |-> 0, calls |-> <<>>,
               preFile |-> NoPid, preOwnerAlive |-> FALSE, preState |-> "Unlocked"]
    /\ blocks \in contents
    /\ inserted = <<>>
    /\ seeded = blocks
    /\ pc = "created"
    /\ iterations \in 1 .. MaxIterations
    /\ iter = 0
    /\ iterator = PathIterator_create
    /\ cursor = Cursor_create
    /\ event_count = 0
    /\ seenPaths = <<>>
    /\ seenEvents = <<>>
    /\ DictIdle

InitInsert == BenchInit(StoresOf(MaxSeedEvents))

NextInsert == AddEvent \/ Benchmark

SpecInsert == InitInsert /\ [][NextInsert]_vars

\* The writer alone: it opens the ObjectFile and inserts events.
NextAdd == BenchOpen \/ AddEvent

SpecAdd == InitInsert /\ [][NextAdd]_vars

InitScan == BenchInit(StoresOf(MaxStoreEvents))

NextScan == Benchmark

SpecScan == InitScan /\ [][NextScan]_vars

\* benchmark() is one sequential function: while a statement is left to run,
\* the process runs it.
SpecScanFair == InitScan /\ [][NextScan]_vars /\ WF_vars(NextScan)

\* ----------------------------------------------------- a reader of Cursors

\* A reader calls Cursor_next_event() on its cursor, whatever the cursor's
\* eof says.
CursorNextEvent ==
    /\ pc = "reader"
    /\ LET r == Cursor_next_event(cursor)
       IN  /\ cursor' = r.c
           /\ last' = CallRecord("Cursor_next_event", Self, r.rc, 0, <<>>)
    /\ UNCHANGED <<dictVars, alive, lockFile, lockState, actionsFile, storeVars, pc, iterations,
                   iter, iterator, event_count, seenPaths, seenEvents>>

\* A reader has the PathIterator rebind its cursor to the next Path.
CursorNextPath ==
    /\ pc = "reader"
    /\ LET r == PathIterator_next(iterator, cursor)
       IN  /\ iterator' = r.it
           /\ cursor' = r.c
           /\ last' = CallRecord("PathIterator_next", Self, r.rc, 0, <<>>)
    /\ UNCHANGED <<dictVars, alive, lockFile, lockState, actionsFile, storeVars, pc, iterations,
                   iter, event_count, seenPaths, seenEvents>>

\* A reader with a new PathIterator and a new Cursor over one of the contents
\* the data model allows.
InitCursor ==
    /\ alive = [p \in Pids |-> TRUE]
    /\ lockFile = NoPid
    /\ lockState = [p \in Pids |-> "Unlocked"]
    /\ actionsFile = TRUE
    /\ last = [op |-> "none", pid |-> NoPid, rc |-> 0, inner |-> 0, calls |-> <<>>,
               preFile |-> NoPid, preOwnerAlive |-> FALSE, preState |-> "Unlocked"]
    /\ blocks \in StoresOf(MaxStoreEvents)
    /\ inserted = <<>>
    /\ seeded = blocks
    /\ pc = "reader"
    /\ iterations = 1
    /\ iter = 0
    /\ iterator = PathIterator_create
    /\ cursor = Cursor_create
    /\ event_count = 0
    /\ seenPaths = <<>>
    /\ seenEvents = <<>>
    /\ DictIdle

NextCursor == CursorNextEvent \/ CursorNextPath

SpecCursor == InitCursor /\ [][NextCursor]_vars

\* ------------------------------------------------- a user of dictionaries

\* find_or_create(name) on the Action Dictionary of the process.
FindOrCreate(name) ==
    /\ pc = "dict"
    /\ LET items == object_file[Self].actions.items
           r == find_or_create(items, name)
       IN  /\ Len(r.items) <= MaxEntries
           /\ object_file' = [object_file EXCEPT
                                ![Self].actions = [ptr |-> "heap", items |-> r.items],
                                ![Self].action_count = Len(r.items)]
           /\ dcall' = [op |-> "find_or_create", name |-> name, id |-> r.id,
                        before |-> items]
    /\ UNCHANGED <<lockVars, storeVars, scanVars, actionsBytes, first,
                   database, headerFile, eql_module>>

\* persist(): the Action Dictionary is written to the actions file.
Persist ==
    /\ pc = "dict"
    /\ actionsFile' = TRUE
    /\ actionsBytes' = Serialize(object_file[Self].actions.items)
    /\ dcall' = [op |-> "persist", name |-> <<>>, id |-> 0,
                 before |-> object_file[Self].actions.items]
    /\ UNCHANGED <<alive, lockFile, lockState, last, storeVars, scanVars, object_file,
                   first, database, headerFile, eql_module>>

\* The process calls load_actions(). An actions file that is missing when
\* stat() looks may have been written by the time fopen() opens it.
LoadActions ==
    /\ pc = "dict"
    /\ \E fo \in (IF actionsFile THEN {actionsBytes} ELSE {NoFile} \cup Files),
          junk \in Junk, ub \in BOOLEAN :
          LET r == load_actions(object_file[Self], actionsFile, fo, junk, ub)
          IN  /\ object_file' = [object_file EXCEPT ![Self] = r.obj]
              /\ alive' = [alive EXCEPT ![Self] = ~r.crash]
              /\ actionsFile' = (fo # NoFile)
              /\ actionsBytes' = IF fo = NoFile THEN <<>> ELSE fo
              /\ last' = CallRecord("load_actions", Self, r.rc, 0, r.calls)
    /\ pc' = "loaded"
    /\ UNCHANGED <<lockFile, lockState, storeVars, iterations, iter, iterator, cursor,
                   event_count, seenPaths, seenEvents, dcall, first,
                   database, headerFile, eql_module>>

\* A process with a new ObjectFile structure; the directory holds no actions
\* file, or one of the files a loader may find.
InitDict ==
    /\ alive = [p \in Pids |-> TRUE]
    /\ lockFile = NoPid
    /\ lockState = [p \in Pids |-> "Unlocked"]
    /\ actionsFile \in BOOLEAN
    /\ actionsBytes \in (IF actionsFile THEN Files ELSE {<<>>})
    /\ last = [op |-> "none", pid |-> NoPid, rc |-> 0, inner |-> 0, calls |-> <<>>,
               preFile |-> NoPid, preOwnerAlive |-> FALSE, preState |-> "Unlocked"]
    /\ blocks = <<>>
    /\ inserted = <<>>
    /\ seeded = <<>>
    /\ pc = "dict"
    /\ iterations = 1
    /\ iter = 0
    /\ iterator = PathIterator_create
    /\ cursor = Cursor_create
    /\ event_count = 0
    /\ seenPaths = <<>>
    /\ seenEvents = <<>>
    /\ object_file = [p \in Pids |->
                        ObjectFile_create(Database_create(bfromcstr("/etc/sky/data")),
                                          bfromcstr("users"), FALSE).obj]
    /\ dcall = NoCall
    /\ first = NoObject
    /\ database = Database_create(bfromcstr("/etc/sky/data"))
    /\ headerFile = NoHeader
    /\ eql_module = NoModule

NextDict == (\E name \in Names : FindOrCreate(name)) \/ Persist \/ LoadActions

SpecDict == InitDict /\ [][NextDict]_vars

\* ------------------------------------------- a process that opens twice

\* The first ObjectFile_open() of the process.
ReopenOpen ==
    /\ pc = "created"
    /\ \E ub \in BOOLEAN :
         LET r == ObjectFile_open(Self, AtFopen, 0, ub)
         IN  /\ lockFile' = r.file
             /\ lockState' = [lockState EXCEPT ![Self] = AfterLock(Self, r.lockrc)]
             /\ alive' = [alive EXCEPT ![Self] = ~r.crash]
             /\ last' = CallRecord("open", Self, r.rc, r.lockrc, r.calls)
             /\ object_file' = [object_file EXCEPT ![Self] = r.obj]
             /\ first' = r.obj
             /\ pc' = IF r.crash THEN "crashed"
                      ELSE IF r.rc = 0 THEN "opened" ELSE "failed"
    /\ UNCHANGED <<actionsFile, actionsBytes, dcall, database, headerFile, eql_module,
                   storeVars, iterations, iter,
                   iterator, cursor, event_count, seenPaths, seenEvents>>

\* ObjectFile_close() after the first open.
ReopenClose ==
    /\ pc = "opened"
    /\ CloseEffect(Self)
    /\ pc' = IF last'.rc = 0 THEN "closed" ELSE "failed"
    /\ UNCHANGED <<storeVars, iterations, iter, iterator, cursor, event_count,
                   seenPaths, seenEvents>>

\* The second ObjectFile_open().
ReopenAgain ==
    /\ pc = "closed"
    /\ \E ub \in BOOLEAN : OpenEffect(Self, ub)
    /\ pc' = IF ~alive'[Self] THEN "crashed"
             ELSE IF last'.rc = 0 THEN "reopened" ELSE "failed"
    /\ UNCHANGED <<storeVars, iterations, iter, iterator, cursor, event_count,
                   seenPaths, seenEvents>>

\* A process with a new ObjectFile structure, before its first open: any lock
\* file, left by anyone; no actions file, or one of the files a loader may
\* find.
InitReopen ==
    /\ alive = [p \in Pids |-> TRUE]
    /\ lockFile \in {NoPid} \cup Pids
    /\ lockState = [p \in Pids |-> "Unlocked"]
    /\ actionsFile \in BOOLEAN
    /\ actionsBytes \in (IF actionsFile THEN Files ELSE {<<>>})
    /\ last = [op |-> "none", pid |-> NoPid, rc |-> 0, inner |-> 0, calls |-> <<>>,
               preFile |-> NoPid, preOwnerAlive |-> FALSE, preState |-> "Unlocked"]
    /\ blocks = <<>>
    /\ inserted = <<>>
    /\ seeded = <<>>
    /\ ScanIdle
    /\ object_file = [p \in Pids |->
                        ObjectFile_create(Database_create(bfromcstr("/etc/sky/data")),
                                          bfromcstr("users"), FALSE).obj]
    /\ dcall = NoCall
    /\ first = NoObject
    /\ database = Database_create(bfromcstr("/etc/sky/data"))
    /\ headerFile = NoHeader
    /\ eql_module = NoModule

NextReopen == ReopenOpen \/ ReopenClose \/ ReopenAgain

SpecReopen == InitReopen /\ [][NextReopen]_vars

\* ------------------------------------- a process that creates its handles

\* The directory names paths are made of, and the database paths.
Segments == {"etc", "sky", "data"}

RECURSIVE PathsOf(_)
PathsOf(n) ==
    IF n = 0 THEN {""}
    ELSE {path \o "/" \o seg : path \in PathsOf(n - 1), seg \in Segments}

DbPaths == UNION {PathsOf(n) : n \in 1 .. MaxDepth}

\* Database *database = Database_create(path).
CreateDatabase ==
    /\ pc = "start"
    /\ \E path \in DbPaths :
         /\ database' = Database_create(bfromcstr(path))
         /\ dcall' = [op |-> "Database_create", name |-> path, id |-> 0,
                      before |-> <<>>]
    /\ pc' = "database"
    /\ UNCHANGED <<lockVars, storeVars, iterations, iter, iterator, cursor, event_count,
                   seenPaths, seenEvents, object_file, actionsBytes, first,
                   headerFile, eql_module>>

\* ObjectFile *object_file = ObjectFile_create(database, name), with the
\* Database of the process or a NULL one, and a name or NULL.
CreateObjectFile ==
    /\ pc = "database"
    /\ \E db \in {database, NullDatabase},
          name \in {bfromcstr(seg) : seg \in Segments} \cup {NullString},
          ub \in BOOLEAN :
          LET r == ObjectFile_create(db, name, ub)
          IN  /\ object_file' = [object_file EXCEPT ![Self] = r.obj]
              /\ alive' = [alive EXCEPT ![Self] = ~r.crash]
              /\ last' = CallRecord("ObjectFile_create", Self,
                                    IF r.null THEN -1 ELSE 0, 0, <<>>)
              /\ dcall' = [op |-> "ObjectFile_create", name |-> name.data, id |-> 0,
                           before |-> <<>>]
              /\ pc' = IF r.crash THEN "crashed"
                       ELSE IF r.null THEN "nohandle" ELSE "handle"
    /\ UNCHANGED <<lockFile, lockState, actionsFile, storeVars, iterations, iter,
                   iterator, cursor, event_count, seenPaths, seenEvents, actionsBytes,
                   first, database, headerFile, eql_module>>

\* A process that has created nothing yet.
InitCreate ==
    /\ alive = [p \in Pids |-> TRUE]
    /\ lockFile = NoPid
    /\ lockState = [p \in Pids |-> "Unlocked"]
    /\ actionsFile = FALSE
    /\ actionsBytes = <<>>
    /\ last = [op |-> "none", pid |-> NoPid, rc |-> 0, inner |-> 0, calls |-> <<>>,
               preFile |-> NoPid, preOwnerAlive |-> FALSE, preState |-> "Unlocked"]
    /\ blocks = <<>>
    /\ inserted = <<>>
    /\ seeded = <<>>
    /\ pc = "start"
    /\ iterations = 1
    /\ iter = 0
    /\ iterator = PathIterator_create
    /\ cursor = Cursor_create
    /\ event_count = 0
    /\ seenPaths = <<>>
    /\ seenEvents = <<>>
    /\ object_file = [p \in Pids |-> NoObject]
    /\ dcall = NoCall
    /\ first = NoObject
    /\ database = NullDatabase
    /\ headerFile = NoHeader
    /\ eql_module = NoModule

NextCreate == CreateDatabase \/ CreateObjectFile

SpecCreate == InitCreate /\ [][NextCreate]_vars

\* ------------------------------------------- a process that loads a header

\* The object id ranges [start, end) a header file may hold, and the tables
\* it may hold: in any order, overlapping or not.
Ranges == {r \in [start : Oids, end : 2 .. MaxOid + 1] : r.start < r.end}

Tables == UNION {[1 .. n -> Ranges] : n \in 0 .. MaxRanges}

\* The process calls load_header().
LoadHeader ==
    /\ pc = "header"
    /\ LET r == load_header(object_file[Self], headerFile)
       IN  /\ object_file' = [object_file EXCEPT ![Self] = r.obj]
           /\ last' = CallRecord("load_header", Self, r.rc, 0, <<>>)
    /\ pc' = "loaded"
    /\ UNCHANGED <<alive, lockFile, lockState, actionsFile, storeVars, iterations, iter,
                   iterator, cursor, event_count, seenPaths, seenEvents, actionsBytes,
                   dcall, first, database, headerFile, eql_module>>

\* A process with a new ObjectFile structure; the directory holds any lock
\* file, and no header file or one with any table.
InitHeader ==
    /\ alive = [p \in Pids |-> TRUE]
    /\ lockFile \in {NoPid} \cup Pids
    /\ lockState = [p \in Pids |-> "Unlocked"]
    /\ actionsFile = FALSE
    /\ actionsBytes = <<>>
    /\ last = [op |-> "none", pid |-> NoPid, rc |-> 0, inner |-> 0, calls |-> <<>>,
               preFile |-> NoPid, preOwnerAlive |-> FALSE, preState |-> "Unlocked"]
    /\ blocks = <<>>
    /\ inserted = <<>>
    /\ seeded = <<>>
    /\ pc = "header"
    /\ iterations = 1
    /\ iter = 0
    /\ iterator = PathIterator_create
    /\ cursor = Cursor_create
    /\ event_count = 0
    /\ seenPaths = <<>>
    /\ seenEvents = <<>>
    /\ object_file = [p \in Pids |->
                        ObjectFile_create(Database_create(bfromcstr("/etc/sky/data")),
                                          bfromcstr("users"), FALSE).obj]
    /\ dcall = NoCall
    /\ first = NoObject
    /\ database = Database_create(bfromcstr("/etc/sky/data"))
    /\ headerFile \in {NoHeader} \cup {[exists |-> TRUE, ranges |-> t] : t \in Tables}
    /\ eql_module = NoModule

NextHeader == LoadHeader

SpecHeader == InitHeader /\ [][NextHeader]_vars

\* ------------------------------------------------ function code generation

\* Function AST nodes: a name, the number of arguments, and whether the
\* function is a method of a class.
Nodes == [name : 1 .. MaxNodes, args : 0 .. MaxArgs, method : BOOLEAN]

\* The steps of eql_ast_function_codegen() that stand behind a check(), in
\* order; "none": every check passes.
FailPoints(node) ==
    {"get_class", "return_type", "function_type", "add_function", "push_scope",
     "body", "verify", "pop_scope", "none"}
    \cup (IF node.method THEN {"class_name"} ELSE {})
    \cup (IF node.args > 0 THEN {"arg_type"} ELSE {})

\* eql_ast_function_codegen() where the step `fail` fails. Before the function
\* exists a failure jumps to error over the initialization of `func` (and,
\* for the first two checks, of `function_name`): error then passes the
\* uninitialized values to bdestroy() and tests `func` before
\* LLVMDeleteFunction(): undefined behaviour, here a crash (ub) or a return
\* of -1. LLVMAddFunction() returning NULL goes to error with func NULL. Then
\* module->llvm_function = func and eql_module_push_scope(), which pushes the
\* node unless it fails; the body is generated and the function verified,
\* with the scope stack as the push left it; eql_module_pop_scope() pops the
\* node unless it fails, and module->llvm_function = NULL. The error label
\* sets module->llvm_function = NULL, deletes the function and returns -1: it
\* does not call eql_module_pop_scope().
eql_ast_function_codegen(node, mod, fail, ub) ==
    LET pushed == Append(mod.scopes, node.name)
    IN  IF fail \in {"get_class", "class_name", "arg_type", "return_type",
                     "function_type"}
        THEN [rc |-> -1, crash |-> ub, value |-> NullFunction,
              module |-> [mod EXCEPT !.llvm_function = NullFunction]]
        ELSE IF fail \in {"add_function", "push_scope"}
        THEN [rc |-> -1, crash |-> FALSE, value |-> NullFunction,
              module |-> [mod EXCEPT !.llvm_function = NullFunction]]
        ELSE IF fail \in {"body", "verify", "pop_scope"}
        THEN [rc |-> -1, crash |-> FALSE, value |-> NullFunction,
              module |-> [llvm_function |-> NullFunction, scopes |-> pushed]]
        ELSE [rc |-> 0, crash |-> FALSE, value |-> node.name,
              module |-> [llvm_function |-> NullFunction,
                          scopes |-> SubSeq(pushed, 1, Len(pushed) - 1)]]

\* The compiler generates the code of a function node.
Codegen ==
    /\ pc = "compile"
    /\ Len(eql_module.scopes) < MaxScopes
    /\ \E node \in Nodes, ub \in BOOLEAN :
         \E fail \in FailPoints(node) :
            LET r == eql_ast_function_codegen(node, eql_module, fail, ub)
            IN  /\ eql_module' = r.module
                /\ alive' = [alive EXCEPT ![Self] = ~r.crash]
                /\ dcall' = [op |-> "eql_ast_function_codegen", name |-> fail,
                             id |-> r.rc, before |-> eql_module.scopes,
                             node |-> node, value |-> r.value]
                /\ pc' = IF r.crash THEN "crashed" ELSE "compile"
    /\ UNCHANGED <<lockFile, lockState, actionsFile, last, storeVars, iterations, iter,
                   iterator, cursor, event_count, seenPaths, seenEvents, object_file,
                   actionsBytes, first, database, headerFile>>

\* A compiler whose module has no current function and no scope.
InitCodegen ==
    /\ alive = [p \in Pids |-> TRUE]
    /\ lockFile = NoPid
    /\ lockState = [p \in Pids |-> "Unlocked"]
    /\ actionsFile = FALSE
    /\ actionsBytes = <<>>
    /\ last = [op |-> "none", pid |-> NoPid, rc |-> 0, inner |-> 0, calls |-> <<>>,
               preFile |-> NoPid, preOwnerAlive |-> FALSE, preState |-> "Unlocked"]
    /\ blocks = <<>>
    /\ inserted = <<>>
    /\ seeded = <<>>
    /\ pc = "compile"
    /\ iterations = 1
    /\ iter = 0
    /\ iterator = PathIterator_create
    /\ cursor = Cursor_create
    /\ event_count = 0
    /\ seenPaths = <<>>
    /\ seenEvents = <<>>
    /\ object_file = [p \in Pids |-> NoObject]
    /\ dcall = NoCall
    /\ first = NoObject
    /\ database = NullDatabase
    /\ headerFile = NoHeader
    /\ eql_module = NoModule

NextCodegen == Codegen

SpecCodegen == InitCodegen /\ [][NextCodegen]_vars

\* ------------------------------------------------------------ claims, Spec

\* The live processes that were told they hold the write lock.
Holders == {p \in Pids : alive[p] /\ lockState[p] = "LockedBySelf"}

\* C1: under every interleaving of acquire and release steps by live
\* processes on one ObjectFile directory, at most one process is in
\* LockedBySelf at any time.
C1_MutualExclusion == Cardinality(Holders) <= 1

\* C2: an acquire made while the lock file names another process that is
\* alive fails (LockConflict, return code -1) and leaves the lock file and
\* the caller's state as they were.
C2_ConflictFails ==
    (/\ last.op = "lock"
     /\ last.preFile \notin {NoPid, last.pid}
     /\ last.preOwnerAlive)
    => (/\ last.rc = -1
        /\ lockFile = last.preFile
        /\ lockState[last.pid] = last.preState)

\* C3: an acquire made while the lock file names a process that is no longer
\* alive succeeds, and afterwards the lock file names the caller, which is in
\* LockedBySelf.
C3_StaleLockTaken ==
    (/\ last.op = "lock"
     /\ last.preFile # NoPid
     /\ ~last.preOwnerAlive)
    => (/\ last.rc = 0
        /\ lockFile = last.pid
        /\ lockState[last.pid] = "LockedBySelf")

\* C4: a release succeeds, deletes the lock file and moves the caller to
\* Unlocked only when the caller is in LockedBySelf and the lock file names
\* it; any other release fails (LockViolation) and deletes nothing.
C4_ReleaseChecked ==
    last.op = "unlock"
    => IF last.preState = "LockedBySelf" /\ last.preFile = last.pid
       THEN last.rc = 0 /\ lockFile = NoPid /\ lockState[last.pid] = "Unlocked"
       ELSE last.rc = -1 /\ lockFile = last.preFile

\* C5: ObjectFile_open takes the lock before it loads header, actions and
\* properties and loads nothing when the lock is refused; after a successful
\* open the lock file names the caller, which holds the lock, and after a
\* successful ObjectFile_close no lock file remains.
C5_OpenHoldsCloseReleases ==
    /\ last.op = "open"
       => /\ last.calls[1] = "lock"
          /\ (last.rc = 0 =>
                /\ last.calls = <<"lock", "load_header", "load_actions", "load_properties">>
                /\ lockFile = last.pid
                /\ lockState[last.pid] = "LockedBySelf")
          /\ (last.inner # 0 => last.rc = -1 /\ last.calls = <<"lock">>)
    /\ (last.op = "close" /\ last.rc = 0) => lockFile = NoPid

\* ----------------------------------------- claims, SpecInsert and SpecScan

\* The events of the Path of object id oid in the Blocks bs; <<>> if none.
PathEventsOf(bs, oid) ==
    LET at == {<<b, k>> \in (1 .. Len(bs)) \X (1 .. MaxOid) :
                  k <= Len(bs[b].paths) /\ bs[b].paths[k].oid = oid}
    IN  IF at = {} THEN <<>>
        ELSE LET w == CHOOSE x \in at : TRUE IN bs[w[1]].paths[w[2]].events

\* The ordered insert of section 4.4, step 3: e goes after every event whose
\* timestamp is not greater than its own.
OrderedInsert(es, e) ==
    LET n == Cardinality({i \in 1 .. Len(es) : es[i].ts <= e.ts})
    IN  SubSeq(es, 1, n) \o <<e>> \o SubSeq(es, n + 1, Len(es))

RECURSIVE InsertAll(_, _)
InsertAll(es, new) ==
    IF new = <<>> THEN es
    ELSE InsertAll(OrderedInsert(es, [ts |-> Head(new).ts, seq |-> Head(new).seq]),
                   Tail(new))

InsertedFor(oid) == SelectSeq(inserted, LAMBDA e : e.oid = oid)

\* Ascending by timestamp; among equal timestamps, in insertion order.
Chronological(es) ==
    \A i, j \in 1 .. Len(es) :
        i < j => \/ es[i].ts < es[j].ts
                 \/ es[i].ts = es[j].ts /\ es[i].seq <= es[j].seq

\* C6: after any sequence of insertions the events of every Path are
\* ascending by timestamp with equal timestamps in insertion order: the Path
\* of an object id holds the events inserted for it, placed by ordered insert
\* (timestamps 5, 1, 3 inserted give a Path read as 1, 3, 5).
C6_PathsChronological ==
    \A oid \in Oids :
        /\ Chronological(PathEventsOf(blocks, oid))
        /\ PathEventsOf(blocks, oid)
             = InsertAll(PathEventsOf(seeded, oid), InsertedFor(oid))

\* The Header Index ranges: ascending by start, pairwise disjoint.
RangesSortedDisjoint(bs) ==
    /\ \A b \in 1 .. Len(bs) : bs[b].start < bs[b].end
    /\ \A b \in 1 .. Len(bs) - 1 : bs[b].end <= bs[b + 1].start

\* The places <<block, path>> at which object id oid has a Path.
PathPlaces(bs, oid) ==
    {<<b, k>> \in (1 .. Len(bs)) \X (1 .. MaxOid) :
        k <= Len(bs[b].paths) /\ bs[b].paths[k].oid = oid}

\* C7: after any sequence of insertions, lazy Block creation included, the
\* Header Index ranges are disjoint and ascending, an object id has at most
\* one Path, and the Path of an object id that events were inserted for is
\* held by the one Block whose range contains the id.
C7_RangesPartitionPaths ==
    /\ RangesSortedDisjoint(blocks)
    /\ \A oid \in Oids :
         /\ Cardinality(PathPlaces(blocks, oid)) <= 1
         /\ \A w \in PathPlaces(blocks, oid) :
              blocks[w[1]].start <= oid /\ oid < blocks[w[1]].end
         /\ InsertedFor(oid) # <<>> =>
              \E b \in 1 .. Len(blocks) :
                 /\ blocks[b].start <= oid /\ oid < blocks[b].end
                 /\ \E k \in 1 .. Len(blocks[b].paths) : blocks[b].paths[k].oid = oid

\* The scan of the current iteration has reached the iterator's eof.
ScanComplete ==
    \/ pc = "scan" /\ iterator.eof
    \/ pc \in {"loop", "unlocked", "done"} /\ iter >= 1

\* C9: after N successful insertions into a fresh ObjectFile, N large enough
\* to pass max_block_size, a full scan sees exactly N events and the Header
\* Index ranges are ascending and disjoint.
C9_SplitKeepsEvents ==
    (/\ ScanComplete
     /\ seeded = <<>>
     /\ Len(inserted) > MaxBlockSize)
    => /\ Len(seenEvents) = Len(inserted)
       /\ RangesSortedDisjoint(blocks)

\* The object id of every Path, Block after Block.
RECURSIVE PathsFrom(_)
PathsFrom(b) ==
    IF b > Len(blocks) THEN <<>>
    ELSE [k \in 1 .. Len(blocks[b].paths) |-> blocks[b].paths[k].oid] \o PathsFrom(b + 1)

\* Every event as <<object id, index, timestamp>>, Path after Path.
RECURSIVE EventsFrom(_, _)
EventsFrom(b, k) ==
    IF b > Len(blocks) THEN <<>>
    ELSE IF k > Len(blocks[b].paths) THEN EventsFrom(b + 1, 1)
    ELSE [i \in 1 .. Len(blocks[b].paths[k].events) |->
             <<blocks[b].paths[k].oid, i, blocks[b].paths[k].events[i].ts>>]
         \o EventsFrom(b, k + 1)

\* C10: a full scan (PathIterator next() until its eof, each Cursor drained
\* until its eof) visits every Path exactly once, ascending by object id
\* across Blocks, and every Event exactly once, ascending by timestamp within
\* its Path.
C10_FullScan ==
    ScanComplete =>
        /\ seenPaths = PathsFrom(1)
        /\ seenEvents = EventsFrom(1, 1)
        /\ \A i \in 1 .. Len(seenPaths) - 1 : seenPaths[i] < seenPaths[i + 1]
        /\ \A i \in 1 .. Len(seenEvents) - 1 :
              seenEvents[i][1] = seenEvents[i + 1][1]
              => /\ seenEvents[i][2] < seenEvents[i + 1][2]
                 /\ seenEvents[i][3] <= seenEvents[i + 1][3]

\* A completed scan over two Blocks with a Path each, one of them with two
\* events of different timestamps.
C10_Witness ==
    /\ ScanComplete
    /\ Len(blocks) >= 2
    /\ Len(seenPaths) >= 2
    /\ \E i \in 1 .. Len(seenEvents) - 1 :
          /\ seenEvents[i][1] = seenEvents[i + 1][1]
          /\ seenEvents[i][3] < seenEvents[i + 1][3]
    /\ \E b, c \in 1 .. Len(blocks) :
          b # c /\ Len(blocks[b].paths) > 0 /\ Len(blocks[c].paths) > 0

\* ------------------------------------------------------ claims, SpecCursor

\* C11: Cursor next_event() succeeds and advances the index by exactly one
\* whenever eof is false, sets eof exactly when the index has passed the last
\* event of the Path, and fails only when eof is already true, leaving the
\* cursor as it was; the index never moves backwards.
C11_CursorNextEvent ==
    [][(last'.op = "Cursor_next_event" /\ iterator' = iterator)
       => IF cursor.eof
          THEN last'.rc = -1 /\ cursor' = cursor
          ELSE /\ last'.rc = 0
               /\ cursor'.blk = cursor.blk /\ cursor'.pth = cursor.pth
               /\ cursor'.idx = cursor.idx + 1
               /\ cursor'.idx >= cursor.idx
               /\ cursor'.eof = (cursor'.idx > Len(CursorEvents(cursor)))]_vars

\* A cursor that was advanced over both events of a two-event Path, reached
\* eof, and then refused another next_event().
C11_Witness ==
    /\ pc = "reader"
    /\ last.op = "Cursor_next_event"
    /\ last.rc = -1
    /\ cursor.eof
    /\ cursor.idx = 3
    /\ Len(CursorEvents(cursor)) = 2

\* -------------------------------------------------------- claims, SpecDict

\* The entries of a dictionary, as a set.
Entries(items) == {items[k] : k \in 1 .. Len(items)}

\* C12: loading a dictionary whose backing file does not exist succeeds and
\* yields an empty dictionary with count 0; it is not an error and no file is
\* opened.
C12_MissingFileLoadsEmpty ==
    (pc = "loaded" /\ ~actionsFile)
        => /\ alive[Self]
           /\ last.rc = 0
           /\ last.calls = <<"file_exists">>
           /\ object_file[Self].action_count = 0
           /\ object_file[Self].actions.items = <<>>

\* The records of a dictionary file from offset pos on, n of them, read as
\* the format says: ok is FALSE if the file ends inside a record.
RECURSIVE ParseRecords(_, _, _, _)
ParseRecords(file, pos, n, acc) ==
    IF n = 0 THEN [ok |-> TRUE, items |-> acc]
    ELSE IF pos + 6 > Len(file) THEN [ok |-> FALSE, items |-> acc]
    ELSE LET id == Value(SubSeq(file, pos + 1, pos + 4))
             len == Value(SubSeq(file, pos + 5, pos + 6))
         IN  IF pos + 6 + len > Len(file) THEN [ok |-> FALSE, items |-> acc]
             ELSE ParseRecords(file, pos + 6 + len, n - 1,
                               Append(acc, [id |-> id,
                                            name |-> SubSeq(file, pos + 7,
                                                            pos + 6 + len)]))

\* A file that declares a count and ends before that many whole records.
Corrupt(file) ==
    /\ Len(file) >= 4
    /\ ~ParseRecords(file, 4, Value(SubSeq(file, 1, 4)), <<>>).ok

\* C13: loading a dictionary file in which a record's name_length exceeds the
\* bytes left, or that ends before the declared count of records, fails; it
\* never succeeds with a truncated name or with a count larger than the
\* number of records read.
C13_CorruptFileFails ==
    (pc = "loaded" /\ actionsFile /\ Corrupt(actionsBytes))
        => /\ alive[Self]
           /\ last.rc = -1

\* C14: persist() followed by load() yields a dictionary with the same set of
\* (id, name) entries as the one find_or_create built.
C14_RoundTrip ==
    (pc = "loaded" /\ dcall.op = "persist")
        => /\ alive[Self]
           /\ last.rc = 0
           /\ object_file[Self].action_count = Len(dcall.before)
           /\ Entries(object_file[Self].actions.items) = Entries(dcall.before)

\* C15: after any sequence of find_or_create calls ids are unique and names
\* are unique; find_or_create of a name already present returns its id and
\* changes nothing; find_or_create of a new name appends it with the largest
\* id plus one (0 in an empty dictionary), and no existing entry changes.
C15_FindOrCreate ==
    pc = "dict" =>
        LET items == object_file[Self].actions.items
            b == dcall.before
            ids == {b[k].id : k \in 1 .. Len(b)}
        IN  /\ \A j, k \in 1 .. Len(items) :
                  j # k => items[j].id # items[k].id /\ items[j].name # items[k].name
            /\ dcall.op = "find_or_create" =>
                  IF \E k \in 1 .. Len(b) : b[k].name = dcall.name
                  THEN /\ items = b
                       /\ \E k \in 1 .. Len(b) :
                             b[k].name = dcall.name /\ b[k].id = dcall.id
                  ELSE /\ Len(items) = Len(b) + 1
                       /\ \A k \in 1 .. Len(b) : items[k] = b[k]
                       /\ items[Len(items)] = [id |-> dcall.id, name |-> dcall.name]
                       /\ dcall.id >= 0
                       /\ b = <<>> => dcall.id = 0
                       /\ b # <<>> => /\ (dcall.id - 1) \in ids
                                      /\ \A i \in ids : i < dcall.id

\* C25: every action id that find_or_create assigns is different from 0, the
\* action_id an Event uses for "none".
C25_ActionIdsNonZero ==
    pc = "dict" =>
        \A k \in 1 .. Len(object_file[Self].actions.items) :
            object_file[Self].actions.items[k].id # 0

\* find_or_create has returned the id of the second of two entries, and has
\* added a second entry before.
C15_Witness ==
    /\ pc = "dict"
    /\ dcall.op = "find_or_create"
    /\ Len(dcall.before) = 2
    /\ dcall.id = 1
    /\ dcall.before[2].name = dcall.name
    /\ object_file[Self].actions.items = dcall.before

\* C16: event insertion leaves the Action Dictionary and the Property
\* Dictionary unchanged, in memory and on disk.
C16_InsertKeepsDictionaries ==
    [][inserted' # inserted
       => /\ object_file'[Self].actions = object_file[Self].actions
          /\ object_file'[Self].action_count = object_file[Self].action_count
          /\ object_file'[Self].properties = object_file[Self].properties
          /\ object_file'[Self].property_count = object_file[Self].property_count
          /\ actionsFile' = actionsFile
          /\ actionsBytes' = actionsBytes]_vars

\* Two insertions have returned success on an opened ObjectFile whose
\* dictionaries were loaded from an actions file.
C16_Witness ==
    /\ pc = "open"
    /\ last.op = "add_event"
    /\ last.rc = 0
    /\ Len(inserted) = 2
    /\ actionsFile
    /\ object_file[Self].actions.ptr # "NULL"

\* ------------------------------------------------------ claims, SpecReopen

\* C17: open() then close() then open() again on the same ObjectFile by the
\* same process succeeds at every step, and the second open reloads a Header
\* Index and dictionaries identical to those of the first open.
C17_ReopenIdempotent ==
    /\ pc \notin {"failed", "crashed"}
    /\ pc = "reopened" => object_file[Self] = first

\* ------------------------------------------------------ claims, SpecCreate

\* C19: Database_create with a path returns a non-null Database whose path
\* equals the path given, and ObjectFile_create(database, name) returns a
\* handle whose path is the database path, '/' and the name, with zero
\* blocks, zero actions and zero properties loaded.
C19_CreateFields ==
    /\ pc = "database" => ~database.null /\ database.path = dcall.name
    /\ pc = "handle" =>
          LET obj == object_file[Self]
          IN  /\ obj.name = dcall.name
              /\ obj.path = database.path \o "/" \o dcall.name
              /\ Len(obj.path) = Len(database.path) + 1 + Len(dcall.name)
              /\ obj.infos = "NULL" /\ obj.block_count = 0
              /\ obj.actions.ptr = "NULL" /\ obj.actions.items = <<>>
              /\ obj.action_count = 0
              /\ obj.properties.ptr = "NULL" /\ obj.properties.items = <<>>
              /\ obj.property_count = 0

\* The handle "sky" of the database "/etc/sky/data" has been created.
C19_Witness ==
    /\ pc = "handle"
    /\ last.op = "ObjectFile_create"
    /\ last.rc = 0
    /\ database.path = "/etc/sky/data"
    /\ object_file[Self].path = "/etc/sky/data/sky"

\* -------------------------------------------------- claims, the benchmark

\* C20: on an object file that no other process has locked, the benchmark's
\* sequence ObjectFile_open, ObjectFile_lock, full scan, ObjectFile_unlock,
\* ObjectFile_close succeeds at every step, and no lock file remains
\* afterwards.
C20_BenchmarkSucceeds ==
    /\ (last.op \in {"open", "ObjectFile_lock"} /\ last.preFile = NoPid)
          => alive[Self] /\ last.rc = 0
    /\ (last.op = "ObjectFile_unlock" /\ last.preFile = Self
        /\ last.preState = "LockedBySelf")
          => last.rc = 0
    /\ last.op = "close" => last.rc = 0
    /\ pc = "done" => lockFile = NoPid

\* C21: the benchmark scan loop terminates for every ObjectFile, one with no
\* Paths included: the PathIterator's eof becomes true after every Path of
\* every Block has been visited, the first next() on an empty ObjectFile sets
\* eof so that no Cursor is drained, and the event count reported equals the
\* number of stored events times the iteration count.
C21_ScanTerminates ==
    /\ (pc = "loop" /\ iter = 0)
          ~> (pc \in {"unlocked", "error"} /\ iter = iterations)
    /\ [](pc = "scan" /\ iterator.eof => seenPaths = PathsFrom(1))
    /\ [](pc = "scan" /\ PathsFrom(1) = <<>>
             => iterator.eof /\ seenEvents = <<>> /\ event_count = 0)
    /\ [](pc \in {"unlocked", "done"}
             => event_count = Len(EventsFrom(1, 1)) * iterations)

\* The benchmark has finished two iterations over an ObjectFile of three
\* events in more than one Path.
C21_Witness ==
    /\ pc = "done"
    /\ iterations = 2
    /\ Len(PathsFrom(1)) >= 2
    /\ Len(EventsFrom(1, 1)) = 3
    /\ event_count = 6

\* ------------------------------------------------------ claims, SpecHeader

\* The Header Index of an ObjectFile structure.
HeaderTable(obj) == IF obj.block_count = 0 THEN <<>> ELSE obj.infos

\* Two ranges of a table share an object id.
Overlapping(rs) ==
    \E i, j \in 1 .. Len(rs) :
        i < j /\ rs[i].start < rs[j].end /\ rs[j].start < rs[i].end

\* C22: Header Index load() yields a table sorted ascending by start object
\* id for every persisted table, sorted or not, and an empty table when no
\* header file exists; a persisted table with overlapping ranges is reported
\* as CorruptState rather than loaded.
C22_HeaderLoadSorted ==
    pc = "loaded" =>
        LET t == HeaderTable(object_file[Self])
        IN  IF ~headerFile.exists THEN last.rc = 0 /\ t = <<>>
            ELSE IF Overlapping(headerFile.ranges) THEN last.rc # 0
            ELSE /\ last.rc = 0
                 /\ \A i \in 1 .. Len(t) - 1 : t[i].start <= t[i + 1].start

\* --------------------------------------------------- claims, failed opens

\* C24: when ObjectFile_open returns failure, the calling process does not
\* hold the lock on return: a failed open leaks no lock file.
C24_FailedOpenLeaksNoLock ==
    (/\ last.op = "open"
     /\ last.rc # 0
     /\ alive[last.pid]
     /\ last.preState = "Unlocked")
    => /\ lockState[last.pid] = "Unlocked"
       /\ lockFile = last.pid => last.preFile = last.pid

\* ----------------------------------------------------- claims, SpecCodegen

\* C26: on every return of eql_ast_function_codegen, success or failure at
\* any step, module->llvm_function is NULL and every scope pushed for the
\* function node has been popped.
C26_CodegenFrame ==
    (dcall.op = "eql_ast_function_codegen" /\ pc = "compile")
        => /\ eql_module.llvm_function = NullFunction
           /\ eql_module.scopes = dcall.before

====
